---- MODULE Spec2Model ----
(***************************************************************************)
(* A model of network/network.go: the length-prefixed framing codec        *)
(* (ReadPrefix, WritePrefix), the address book of a TCPServer with its     *)
(* gossip handlers (sharePeers, addPeer) and the Bootstrap algorithm.      *)
(*                                                                         *)
(* Several state machines share the module:                                *)
(*   SpecFrame  one connection: a sender writes bytes, ReadPrefix reads.   *)
(*   SpecConc   handleConn goroutines touching the address book map.       *)
(*   SpecServe  the gossip handlers serving messages one after another.    *)
(*   SpecBoot   one Bootstrap run, with inbound messages served between    *)
(*              its steps.                                                 *)
(*   SpecDisp   the handler table and handleConn's dispatch.               *)
(*   SpecListen the accept loop and the tasks it starts.                   *)
(*   SpecBook   announces and RandomPeer on the address book.              *)
(*   SpecXchg   a client's exchanges with a peer running handleConn.       *)
(***************************************************************************)
EXTENDS Integers, Sequences, FiniteSets, TLC

(***************************************************************************)
(* Byte strings.  A Go []byte is kept run-length encoded, a sequence of    *)
(* runs [b |-> byte, n |-> count] with no two neighbours of the same byte, *)
(* so that a 65536 byte payload is one or two runs.                        *)
(***************************************************************************)
Run(b, n) == [b |-> b, n |-> n]

Min(a, b) == IF a <= b THEN a ELSE b

RECURSIVE BLen(_)
BLen(s) == IF s = <<>> THEN 0 ELSE Head(s).n + BLen(Tail(s))

BCat(s, t) ==
    IF s = <<>> THEN t
    ELSE IF t = <<>> THEN s
    ELSE IF s[Len(s)].b = t[1].b
         THEN SubSeq(s, 1, Len(s) - 1)
              \o <<Run(t[1].b, s[Len(s)].n + t[1].n)>> \o Tail(t)
         ELSE s \o t

RECURSIVE BTake(_, _)
BTake(s, k) ==
    IF k <= 0 \/ s = <<>> THEN <<>>
    ELSE IF Head(s).n <= k
         THEN <<Head(s)>> \o BTake(Tail(s), k - Head(s).n)
         ELSE <<Run(Head(s).b, k)>>

RECURSIVE BDrop(_, _)
BDrop(s, k) ==
    IF k <= 0 \/ s = <<>> THEN s
    ELSE IF Head(s).n <= k
         THEN BDrop(Tail(s), k - Head(s).n)
         ELSE <<Run(Head(s).b, Head(s).n - k)>> \o Tail(s)

RECURSIVE BAt(_, _)
BAt(s, i) == IF i <= Head(s).n THEN Head(s).b ELSE BAt(Tail(s), i - Head(s).n)

RECURSIVE FromSeq(_)
FromSeq(q) ==
    IF q = <<>> THEN <<>> ELSE BCat(<<Run(Head(q), 1)>>, FromSeq(Tail(q)))

(***************************************************************************)
(* encoding.EncUint64 / encoding.DecUint64: 8 bytes, little endian; the    *)
(* decoder pads a shorter slice with zero bytes.                           *)
(***************************************************************************)
RECURSIVE EncLE(_, _)
EncLE(i, k) == IF k = 0 THEN <<>> ELSE <<i % 256>> \o EncLE(i \div 256, k - 1)

EncUint64(i) == EncLE(i, 8)

\* Values of 2^31 and more are kept as 2^31 - 1, the largest integer of the
\* checker: every use compares the result with maxMsgLen, far below.
RECURSIVE DecLE(_, _)
DecLE(s, k) ==
    IF k > BLen(s) THEN 0
    ELSE LET r == DecLE(s, k + 1) IN
         IF r >= 8388608 THEN 2147483647 ELSE BAt(s, k) + 256 * r

DecUint64(s) == DecLE(BTake(s, 8), 1)

maxMsgLen == 65536

PrefixLen == 4

(***************************************************************************)
(* WritePrefix: append(encLen[:4], data...) handed to one conn.Write.      *)
(***************************************************************************)
PrefixOf(len) == FromSeq(SubSeq(EncUint64(len), 1, PrefixLen))

WritePrefixBytes(data) == BCat(PrefixOf(BLen(data)), data)

(***************************************************************************)
(* NetAddress and the value codec.  A host name is one symbol of Hosts and *)
(* is written on the wire as its index; a port is two bytes, low first.    *)
(* encoding.Marshal / encoding.Unmarshal are external: Unmarshal fails on  *)
(* bytes that Marshal cannot have produced.                                *)
(***************************************************************************)
ListenPort == 4001

Hosts == <<"", "10.0.0.1", "10.0.0.2", "10.0.0.3", "203.0.113.5">>

NetAddress(h, p) == [Host |-> h, Port |-> p]

HostCode(h) == CHOOSE i \in 1..Len(Hosts) : Hosts[i] = h

RECURSIVE ToSeq(_)
ToSeq(s) == IF s = <<>> THEN <<>> ELSE <<BAt(s, 1)>> \o ToSeq(BDrop(s, 1))

AddrBytes(a) == <<HostCode(a.Host), a.Port % 256, a.Port \div 256>>

AddrOfBytes(q) == NetAddress(Hosts[q[1]], q[2] + 256 * q[3])

AddrBytesOk(q) == Len(q) = 3 /\ q[1] \in 1..Len(Hosts)

RECURSIVE ListBytes(_)
ListBytes(l) == IF l = <<>> THEN <<>> ELSE AddrBytes(Head(l)) \o ListBytes(Tail(l))

\* encoding.Marshal of a NetAddress, and of a []NetAddress (count byte first)
MarshalAddr(a) == FromSeq(AddrBytes(a))

MarshalList(l) == FromSeq(<<Len(l)>> \o ListBytes(l))

\* encoding.Unmarshal(data, &addr)
UnmarshalAddr(d) ==
    LET q == ToSeq(d) IN
    IF AddrBytesOk(q) THEN [ok |-> TRUE, val |-> AddrOfBytes(q)]
    ELSE [ok |-> FALSE, val |-> NetAddress("", 0)]

\* encoding.Unmarshal(data, &addrs)
UnmarshalList(d) ==
    LET q == ToSeq(d)
        n == IF q = <<>> THEN 0 ELSE q[1]
        item(i) == SubSeq(q, 3 * i - 1, 3 * i + 1)
    IN  IF q # <<>> /\ Len(q) = 1 + 3 * n /\ \A i \in 1..n : AddrBytesOk(item(i))
        THEN [ok |-> TRUE, val |-> [i \in 1..n |-> AddrOfBytes(item(i))]]
        ELSE [ok |-> FALSE, val |-> <<>>]

\* the message-type tags of the built-in handlers
TagH == 72
TagP == 80
TagA == 65

(***************************************************************************)
(* Bounds of the model.                                                    *)
(***************************************************************************)
\* how many reads of one connection may return fewer bytes than asked for
MaxShortReads == 2

\* the sizes such a short read may have
ShortSizes == {1, 2, 3}

\* payload sizes a sender is given, and lengths a foreign sender may declare
PayloadLens == {0, 1, 2, maxMsgLen, maxMsgLen + 1}

HdrLens == {0, 1, 2, 3, maxMsgLen, maxMsgLen + 1, 2147483647}

\* handleConn goroutines running at the same time
NumTasks == 2

Tasks == 1..NumTasks

\* inbound peer-announce messages served during one Bootstrap run
MaxAnnounce == 1

\* the longest seed list
MaxSeeds == 2

\* the peers of the model, and the two addresses the node itself can have
P1 == NetAddress("10.0.0.1", ListenPort)
P2 == NetAddress("10.0.0.2", ListenPort)
P3 == NetAddress("10.0.0.3", ListenPort)
Me0 == NetAddress("", ListenPort)
Me1 == NetAddress("203.0.113.5", ListenPort)

Addrs == {P1, P2, P3, Me0, Me1}

\* bytes that decode to nothing
Junk == <<Run(9, 2)>>

\* a payload of n bytes: 0xAA, then 0xBB to the end
PayloadOf(n) ==
    IF n = 0 THEN <<>>
    ELSE IF n = 1 THEN <<Run(170, 1)>>
    ELSE <<Run(170, 1), Run(187, n - 1)>>

VARIABLES
    \* ---- one connection, sender to ReadPrefix (SpecFrame)
    wmode,       \* "WritePrefix": the sender is this code; "raw": a foreign peer
    payload,     \* the payload bytes the sender has
    hdr,         \* the header bytes a foreign peer writes before them
    spc,         \* sender: "write", "open" (written, stream kept open), "closed"
    stream,      \* bytes written to the connection and not yet read
    connErr,     \* the connection failed (reset): reads return a non-EOF error
    rpc,         \* ReadPrefix: "start", "loop", "readfrom", "done"
    msgLen,      \* ReadPrefix's msgLen
    total,       \* ReadPrefix's total
    data,        \* ReadPrefix's data buffer
    rfN,         \* bytes read so far by the running data.ReadFrom call
    rpRet,       \* what ReadPrefix returned: [err, data]
    shortReads,  \* short reads so far on this connection
    \* ---- the TCPServer
    addressbook, \* tcps.addressbook, the keys of the map
    myAddr,      \* tcps.myAddr
    \* ---- handleConn goroutines (SpecConc)
    hpc,         \* per task: "idle", "dispatch", "write", "read", "done"
    hmsg,        \* per task: the message read, [type, data]
    hsnap,       \* per task: the map as it was when its map access began
    hraced,      \* per task: a conflicting map access overlapped its own
    hout,        \* per task: what the handler returned, [err, reply]
    crashed,     \* the runtime ended the process (fatal error in a map access)
    \* ---- inbound messages served one at a time (SpecServe, SpecBoot)
    annIn,       \* the addresses inbound peer-announce messages have carried
    lastShare,   \* the last sharePeers call: [book, msg, err, reply]
    \* ---- one Bootstrap run (SpecBoot)
    BootstrapPeers, \* the seed list
    reach,       \* the addresses that accept a TCP connection
    hostAns,     \* per peer: what it answers to a hostname query
    shareAns,    \* per peer: what it answers to a peer-share request
    flaky,       \* the peers on whose connections a write of an announce fails
    bpc,         \* Bootstrap: "idle", "seed", "learn", "request", "announce", "done"
    bIdx,        \* the seeding loop's position in BootstrapPeers
    bPend,       \* the running range loop: map entries it has yet to produce
    bRet,        \* what Bootstrap returned
    pinged,      \* the addresses that answered a Ping of this node
    bInserted,   \* the addresses Bootstrap stored in the map
    firstHost,   \* the host part of the first hostname reply that parsed
    hostWrites,  \* how often myAddr.Host was assigned
    learnCalls,  \* the Calls the hostname loop has made
    learnAfter,  \* the hostname loop made a Call after one had succeeded
    bStart,      \* per Broadcast: the map when it began
    called,      \* per Broadcast: the peers it made a Call on
    dupCall,     \* a Broadcast made a second Call on the same peer
    failed,      \* the <<phase, peer>> Calls that returned an error
    annMsg,      \* the message SendVal('A', tcps.myAddr) built
    annSent,     \* the announces sent: <<peer, message>>
    \* ---- the dispatcher: one accepted connection at a time (SpecDisp)
    handlerMap,  \* tcps.handlerMap: tag -> handler, "none" where absent
    regLog,      \* per tag: the handlers bound to it so far, oldest first
    regCall,     \* the last registration call: what was passed, what it
                 \* returned and the table before it
    regs,        \* registration calls made so far
    hcpc,        \* handleConn: "off", "idle", "tag", "readprefix", "closed"
    hcTag,       \* msgType[0], -1 while not read
    connOpen,    \* the accepted connection has not been closed by this side
    invoked,     \* the handlers handleConn has called on this connection
    hcReply,     \* the bytes the handler wrote to the connection
    bookBefore,  \* the address book when the connection was accepted
    connsServed, \* connections accepted so far
    \* ---- the accept loop (SpecListen)
    lpc,         \* listen: "off", "accept" (in tcps.Accept()), "returned"
    lOpen,       \* the listener has not been closed
    lateAccept,  \* a connection was accepted after the listener was closed
    busyAtAccept, \* handling tasks not yet ended when the last accept was made
    closeBefore, \* the tasks' positions just before the listener was closed
    closeAfter,  \* and just after
    \* ---- address book operations, one at a time (SpecBook)
    reAnn,       \* the last announce of an address announced before
    rpOut,       \* the last RandomPeer call: the book it saw, what it returned
    \* ---- a client of this code talking to a dispatcher of this code (SpecXchg)
    xpc,         \* the client: "off", "start", "wrote", "reading", "returned"
    xplan,       \* the exchanges it has still to make: "H", "P"
    xret         \* what its exchanges returned, oldest first

frameVars == <<wmode, payload, hdr, spc, stream, connErr, rpc, msgLen, total,
               data, rfN, rpRet, shortReads>>

srvVars == <<addressbook, myAddr>>

concVars == <<hpc, hmsg, hsnap, hraced, hout, crashed>>

serveVars == <<annIn, lastShare>>

dispVars == <<handlerMap, regLog, regCall, regs, hcpc, hcTag, connOpen, invoked,
              hcReply, bookBefore, connsServed>>

\* the state of the specifications that come after SpecBoot
listenVars == <<lpc, lOpen, lateAccept, busyAtAccept, closeBefore, closeAfter>>

bookVars == <<reAnn, rpOut>>

\* what addPeer, running as a handler on its own, leaves alone
xchgVars == <<xpc, xplan, xret>>

addPeerFrame == <<dispVars, listenVars, xchgVars>>

extVars == <<addPeerFrame, bookVars>>

\* the seed list and the peers' behaviour: fixed during a run
envVars == <<BootstrapPeers, reach, hostAns, shareAns, flaky>>

\* what the run has done so far, kept for the claims
logVars == <<pinged, bInserted, firstHost, hostWrites, learnCalls, learnAfter,
             bStart, called, dupCall, failed, annMsg, annSent>>

bootVars == <<envVars, bpc, bIdx, bPend, bRet, logVars>>

vars == <<frameVars, srvVars, concVars, serveVars, bootVars, extVars>>

nonFrameVars == <<srvVars, concVars, serveVars, bootVars, extVars>>

NoRet == [err |-> "pending", data |-> <<>>]
RetErr(e) == [err |-> e, data |-> <<>>]
RetOk(d) == [err |-> "nil", data |-> d]

NoMsg == [type |-> 0, data |-> <<>>]
NoOut == [err |-> "pending", reply |-> <<>>]
NoShare == [book |-> {}, msg |-> <<>>, err |-> "pending", reply |-> <<>>]

\* NewTCPServer, lines 155-159: an empty map, myAddr = NetAddress{"", port}
SrvInit == addressbook = {} /\ myAddr = Me0

ConcIdle ==
    /\ hpc = [t \in Tasks |-> "off"] /\ hmsg = [t \in Tasks |-> NoMsg]
    /\ hsnap = [t \in Tasks |-> {}] /\ hraced = [t \in Tasks |-> FALSE]
    /\ hout = [t \in Tasks |-> NoOut] /\ crashed = FALSE

ServeIdle == annIn = {} /\ lastShare = NoShare

NoAns == [ok |-> FALSE, data |-> <<>>]

LogInit ==
    /\ pinged = {} /\ bInserted = {} /\ firstHost = "none" /\ hostWrites = 0
    /\ learnCalls = 0 /\ learnAfter = FALSE
    /\ bStart = [ph \in {"request", "announce"} |-> {}]
    /\ called = [ph \in {"request", "announce"} |-> {}]
    /\ dupCall = FALSE /\ failed = {} /\ annMsg = <<>> /\ annSent = {}

BootIdle ==
    /\ BootstrapPeers = <<>> /\ reach = {}
    /\ hostAns = [a \in Addrs |-> NoAns] /\ shareAns = [a \in Addrs |-> NoAns]
    /\ flaky = {}
    /\ bpc = "idle" /\ bIdx = 1 /\ bPend = {} /\ bRet = "pending"
    /\ LogInit

\* the application's tag, and the tags of the model
TagX == 88

Tags == {TagH, TagP, TagA, TagX}

\* NewTCPServer, lines 161-165: the default handlers
DefaultHandlers ==
    [t \in Tags |-> IF t = TagH THEN "sendHostname"
                    ELSE IF t = TagP THEN "sharePeers"
                    ELSE IF t = TagA THEN "addPeer" ELSE "none"]

NoRegCall ==
    [tag |-> 0, fn |-> "none", kind |-> "none", shaped |-> TRUE, ret |-> "none",
     before |-> DefaultHandlers]

TableInit ==
    /\ handlerMap = DefaultHandlers
    /\ regLog = [t \in Tags |-> <<DefaultHandlers[t]>>]
    /\ regCall = NoRegCall /\ regs = 0

DispIdle ==
    /\ TableInit
    /\ hcpc = "off" /\ hcTag = -1 /\ connOpen = FALSE /\ invoked = <<>>
    /\ hcReply = <<>> /\ bookBefore = {} /\ connsServed = 0

ListenIdle ==
    /\ lpc = "off" /\ lOpen = FALSE /\ lateAccept = FALSE /\ busyAtAccept = 0
    /\ closeBefore = <<>> /\ closeAfter = <<>>

ZeroAddr == NetAddress("", 0)

NoReAnn == [seen |-> FALSE, x |-> ZeroAddr, same |-> TRUE, has |-> TRUE]

NoRand == [called |-> FALSE, empty |-> FALSE, member |-> FALSE, val |-> ZeroAddr]

BookIdle == reAnn = NoReAnn /\ rpOut = NoRand

XchgIdle == xpc = "off" /\ xplan = <<>> /\ xret = <<>>

ExtIdle == DispIdle /\ ListenIdle /\ BookIdle /\ XchgIdle

FrameIdle ==
    /\ wmode = "none" /\ payload = <<>> /\ hdr = <<>> /\ spc = "closed"
    /\ stream = <<>> /\ connErr = FALSE /\ rpc = "done" /\ msgLen = 0
    /\ total = 0 /\ data = <<>> /\ rfN = 0 /\ rpRet = NoRet /\ shortReads = 0

InitFrame ==
    /\ payload \in {PayloadOf(n) : n \in PayloadLens}
    /\ \/ wmode = "WritePrefix" /\ hdr = <<>>
       \/ /\ wmode = "raw"
          /\ hdr \in {PrefixOf(l) : l \in HdrLens} \cup {BTake(PrefixOf(1), 2)}
    /\ spc = "write" /\ stream = <<>> /\ connErr = FALSE
    /\ rpc = "start" /\ msgLen = 0 /\ total = 0 /\ data = <<>> /\ rfN = 0
    /\ rpRet = NoRet /\ shortReads = 0
    /\ SrvInit /\ ConcIdle /\ ServeIdle /\ BootIdle /\ ExtIdle

(***************************************************************************)
(* The sender's side of the connection.                                    *)
(***************************************************************************)
\* WritePrefix(conn, data): one conn.Write of prefix and payload
WritePrefix ==
    /\ wmode = "WritePrefix" /\ spc = "write"
    /\ stream' = BCat(stream, WritePrefixBytes(payload))
    /\ spc' = "open"
    /\ UNCHANGED <<nonFrameVars, wmode, payload, hdr, connErr, rpc, msgLen, total, data, rfN,
                   rpRet, shortReads>>

\* a peer that is not this code writes a header and payload bytes of its own
RawWrite ==
    /\ wmode = "raw" /\ spc = "write"
    /\ stream' = BCat(stream, BCat(hdr, payload))
    /\ spc' = "open"
    /\ UNCHANGED <<nonFrameVars, wmode, payload, hdr, connErr, rpc, msgLen, total, data, rfN,
                   rpRet, shortReads>>

\* the sender closes its end: the reader sees EOF once the stream is drained
SenderClose ==
    /\ spc = "open"
    /\ spc' = "closed"
    /\ UNCHANGED <<nonFrameVars, wmode, payload, hdr, stream, connErr, rpc, msgLen, total,
                   data, rfN, rpRet, shortReads>>

\* the connection breaks: what was in transit is gone, reads fail
ConnReset ==
    /\ ~connErr /\ rpc # "done" /\ spc # "write"
    /\ connErr' = TRUE
    /\ stream' = <<>>
    /\ UNCHANGED <<nonFrameVars, wmode, payload, hdr, spc, rpc, msgLen, total, data, rfN,
                   rpRet, shortReads>>

(***************************************************************************)
(* conn.Read(p) with len(p) = cap on a stream holding avail > 0 bytes      *)
(* returns between 1 and min(avail, cap) bytes.                            *)
(***************************************************************************)
ReadSizes(avail, cap) ==
    {Min(avail, cap)}
    \cup (IF shortReads < MaxShortReads
          THEN {k \in ShortSizes : k < Min(avail, cap)} ELSE {})

AtEOF == stream = <<>> /\ spc = "closed"

(***************************************************************************)
(* ReadPrefix                                                              *)
(***************************************************************************)
\* what ReadPrefix does with the n bytes its first conn.Read returned
PrefixOutcome(n, prefix) ==
    IF n # PrefixLen
    THEN [pc |-> "done", len |-> 0, ret |-> RetErr("could not read length prefix")]
    ELSE IF DecUint64(prefix) > maxMsgLen
    THEN [pc |-> "done", len |-> DecUint64(prefix), ret |-> RetErr("message too long")]
    ELSE [pc |-> "loop", len |-> DecUint64(prefix), ret |-> NoRet]

\* lines 43-50: read the prefix, decode and bound msgLen
RP_ReadPrefix ==
    /\ rpc = "start"
    /\ \/ /\ connErr \/ AtEOF
          /\ rpc' = "done"
          /\ rpRet' = RetErr("could not read length prefix")
          /\ UNCHANGED <<stream, msgLen, shortReads>>
       \/ /\ ~connErr /\ stream # <<>>
          /\ \E n \in ReadSizes(BLen(stream), PrefixLen) :
                LET o == PrefixOutcome(n, BTake(stream, n)) IN
                /\ stream' = BDrop(stream, n)
                /\ rpc' = o.pc
                /\ msgLen' = o.len
                /\ rpRet' = o.ret
                /\ shortReads' = IF n < Min(BLen(stream), PrefixLen)
                                 THEN shortReads + 1 ELSE shortReads
    /\ UNCHANGED <<nonFrameVars, wmode, payload, hdr, spc, connErr, total, data, rfN>>

\* LoopExit without the length check of line 60
LoopExitNoCheck(d, len) == RetOk(d)

\* what ReadPrefix returns once its loop has ended (lines 60-63)
LoopExit(d, len) ==
    IF BLen(d) # len THEN RetErr("message length mismatch") ELSE RetOk(d)

\* the loop condition total < msgLen
LoopCond(t, len) == t < len

\* line 53 and lines 60-63: the loop test, and the return after the loop
RP_Loop ==
    /\ rpc = "loop"
    /\ IF LoopCond(total, msgLen)
       THEN /\ rpc' = "readfrom"
            /\ rfN' = 0
            /\ UNCHANGED rpRet
       ELSE /\ rpc' = "done"
            /\ rpRet' = LoopExit(data, msgLen)
            /\ UNCHANGED rfN
    /\ UNCHANGED <<nonFrameVars, wmode, payload, hdr, spc, stream, connErr, msgLen, total,
                   data, shortReads>>

\* line 54, inside data.ReadFrom(conn): one Read that returned bytes
RP_ReadFromRead ==
    /\ rpc = "readfrom" /\ ~connErr /\ stream # <<>>
    /\ \E n \in ReadSizes(BLen(stream), BLen(stream)) :
          /\ data' = BCat(data, BTake(stream, n))
          /\ stream' = BDrop(stream, n)
          /\ rfN' = rfN + n
          /\ shortReads' = IF n < BLen(stream) THEN shortReads + 1 ELSE shortReads
    /\ UNCHANGED <<nonFrameVars, wmode, payload, hdr, spc, connErr, rpc, msgLen, total, rpRet>>

\* lines 54-58: data.ReadFrom returns (n, nil) when Read reports EOF
RP_ReadFromEOF ==
    /\ rpc = "readfrom" /\ ~connErr /\ AtEOF
    /\ total' = total + rfN
    /\ rfN' = 0
    /\ rpc' = "loop"
    /\ UNCHANGED <<nonFrameVars, wmode, payload, hdr, spc, stream, connErr, msgLen, data,
                   rpRet, shortReads>>

\* lines 55-57: data.ReadFrom returns a read error other than EOF
RP_ReadFromErr ==
    /\ rpc = "readfrom" /\ connErr
    /\ rpc' = "done"
    /\ rpRet' = RetErr("read error")
    /\ UNCHANGED <<nonFrameVars, wmode, payload, hdr, spc, stream, connErr, msgLen, total,
                   data, rfN, shortReads>>

ReadPrefix ==
    \/ RP_ReadPrefix
    \/ RP_Loop
    \/ RP_ReadFromRead
    \/ RP_ReadFromEOF
    \/ RP_ReadFromErr

NextFrame ==
    \/ WritePrefix
    \/ RawWrite
    \/ SenderClose
    \/ ConnReset
    \/ ReadPrefix

SpecFrame == InitFrame /\ [][NextFrame]_vars

\* the reading goroutine is scheduled while it can take a step
FairFrame == SpecFrame /\ WF_vars(ReadPrefix)

(***************************************************************************)
(* Framing: the claims.                                                    *)
(***************************************************************************)
\* every byte the sender puts on the connection
SentBytes ==
    IF wmode = "WritePrefix" THEN WritePrefixBytes(payload) ELSE BCat(hdr, payload)

\* the payload bytes the stream carries after the 4 prefix bytes
Carried == BLen(SentBytes) - PrefixLen

Returned == rpc = "done" /\ rpRet.err # "pending"
ReturnedOk == rpc = "done" /\ rpRet.err = "nil"
ReturnedErr == rpc = "done" /\ rpRet.err \notin {"nil", "pending"}

\* C4: once the prefix and L payload bytes have arrived ReadPrefix returns
\* them even if the sender keeps the stream open: it is never left waiting
\* for more (for end-of-stream) while it already holds L payload bytes.
C4_NeverWaitsForEOF ==
    ~(/\ rpc = "readfrom" /\ BLen(data) >= msgLen
      /\ stream = <<>> /\ spc = "open" /\ ~connErr)

\* the stream has ended after a prefix L > 0 and fewer than L payload bytes
Truncated ==
    /\ rpc \in {"loop", "readfrom"} /\ msgLen > 0
    /\ spc = "closed" /\ ~connErr
    /\ BLen(data) + BLen(stream) < msgLen

\* C5: if the stream ends after a prefix L > 0 but before L payload bytes
\* have arrived, ReadPrefix eventually returns an error.
C5_TruncationReturnsError == Truncated ~> ReturnedErr

\* C6 as stated: a successful ReadPrefix returns exactly L bytes, L <= 65536,
\* and no stream carrying more or fewer payload bytes than L yields success.
C6_SuccessMeansExactStream ==
    ReturnedOk =>
        /\ BLen(rpRet.data) = msgLen
        /\ msgLen <= maxMsgLen
        /\ Carried = msgLen

\* C6 as amended: a successful ReadPrefix returns exactly L bytes with
\* L <= 65536; for L > 0 the stream carried exactly L payload bytes, which are
\* the bytes returned; for L = 0 nothing after the prefix is read.
C6_SuccessMeansExactLength ==
    ReturnedOk =>
        /\ BLen(rpRet.data) = msgLen
        /\ msgLen <= maxMsgLen
        /\ msgLen > 0 => /\ Carried = msgLen
                         /\ rpRet.data = BDrop(SentBytes, PrefixLen)
        /\ (msgLen = 0 /\ ~connErr) => BLen(stream) = Carried

\* C6 witness: a full-size message was read successfully
C6_Witness == ReturnedOk /\ msgLen = maxMsgLen /\ BLen(rpRet.data) = maxMsgLen

\* C7: what WritePrefix wrote, ReadPrefix returns unchanged for every payload
\* of 0..65536 bytes; a payload of 65537 bytes is never written by
\* WritePrefix and never accepted by ReadPrefix.
C7_RoundTrip ==
    wmode = "WritePrefix" =>
        /\ BLen(payload) > maxMsgLen => spc = "write" /\ ~ReturnedOk
        /\ (BLen(payload) <= maxMsgLen /\ Returned /\ ~connErr)
              => rpRet = RetOk(payload)

(***************************************************************************)
(* The built-in handlers, as functions of the map and the message.         *)
(***************************************************************************)
\* a map write that drops the entries the map had
MapInsertReplace(book, a) == {a}

\* the map after tcps.addressbook[addr] = struct{}{}
MapInsert(book, a) == book \cup {a}

\* the range loop of sharePeers without its num == 0 test
RECURSIVE RangeTakeNoStop(_, _, _)
RangeTakeNoStop(book, num, acc) ==
    IF book = {} THEN {acc}
    ELSE UNION {RangeTakeNoStop(book \ {a}, num, Append(acc, a)) : a \in book}

\* lines 224-231 of sharePeers: the slices the range loop over the map can
\* build, in any iteration order, stopping when num reaches 0
RECURSIVE RangeTake(_, _, _)
RangeTake(book, num, acc) ==
    IF book = {} \/ num = 0 THEN {acc}
    ELSE UNION {RangeTake(book \ {a}, num - 1, Append(acc, a)) : a \in book}

\* line 220 of sharePeers
SharePeersArgOk(msgData) == BLen(msgData) = 1

\* lines 223-232 of sharePeers: what it can write to the connection
SharePeersReplies(book, msgData) ==
    {WritePrefixBytes(MarshalList(l)) : l \in RangeTake(book, BAt(msgData, 1), <<>>)}

\* conn.RemoteAddr().String() of an inbound connection: "10.0.0.2:<port>"
RemoteAddrString == FromSeq(<<HostCode("10.0.0.2"), 58, 100>>)

\* sendHostname, lines 212-215
SendHostnameReply == WritePrefixBytes(RemoteAddrString)

(***************************************************************************)
(* SpecConc: NumTasks handleConn goroutines, each with the message it has  *)
(* read, run the handlers against the one unguarded map.  A map access     *)
(* takes time: it begins and ends in separate steps.  When a write         *)
(* overlaps another access the Go memory model promises nothing: the       *)
(* write may land, may be lost, may undo the other, or the runtime may     *)
(* end the process.                                                        *)
(***************************************************************************)
ConcMsgs ==
    {[type |-> TagA, data |-> MarshalAddr(a)] : a \in {P1, P2, Me0}}
    \cup {[type |-> TagA, data |-> Junk]}
    \cup {[type |-> TagP, data |-> <<Run(c, 1)>>] : c \in {0, 1, 255}}
    \cup {[type |-> TagP, data |-> <<>>]}
    \cup {[type |-> TagH, data |-> <<>>]}
    \cup {[type |-> 88, data |-> <<>>]}

InitConc ==
    /\ SrvInit
    /\ hpc = [t \in Tasks |-> "idle"] /\ hmsg = [t \in Tasks |-> NoMsg]
    /\ hsnap = [t \in Tasks |-> {}] /\ hraced = [t \in Tasks |-> FALSE]
    /\ hout = [t \in Tasks |-> NoOut] /\ crashed = FALSE
    /\ FrameIdle /\ ServeIdle /\ BootIdle /\ ExtIdle

nonConcVars == <<frameVars, serveVars, bootVars, extVars>>

\* listen, lines 175-184, and handleConn, lines 190-201: a connection is
\* accepted, its goroutine started, and tag and message read
Accept(t) ==
    /\ ~crashed /\ hpc[t] = "idle"
    /\ \E m \in ConcMsgs : hmsg' = [hmsg EXCEPT ![t] = m]
    /\ hpc' = [hpc EXCEPT ![t] = "dispatch"]
    /\ UNCHANGED <<nonConcVars, srvVars, hsnap, hraced, hout, crashed>>

InFlight == {u \in Tasks : hpc[u] \in {"write", "read"}}

\* task t starts reading ("read") or writing ("write") the map
BeginAccess(t, kind) ==
    LET against == IF kind = "write" THEN InFlight
                   ELSE {u \in InFlight : hpc[u] = "write"}
    IN  /\ hpc' = [hpc EXCEPT ![t] = kind]
        /\ hsnap' = [hsnap EXCEPT ![t] = addressbook]
        /\ hraced' = [u \in Tasks |->
                        IF u = t THEN against # {} ELSE hraced[u] \/ u \in against]

Finish(t, e, r) ==
    /\ hpc' = [hpc EXCEPT ![t] = "done"]
    /\ hout' = [hout EXCEPT ![t] = [err |-> e, reply |-> r]]

\* handleConn line 203-204 with fn = addPeer, lines 238-242: decode, then
\* start the map write
HC_AddPeer(t) ==
    /\ ~crashed /\ hpc[t] = "dispatch" /\ hmsg[t].type = TagA
    /\ IF UnmarshalAddr(hmsg[t].data).ok
       THEN BeginAccess(t, "write") /\ UNCHANGED hout
       ELSE Finish(t, "unmarshal", <<>>) /\ UNCHANGED <<hsnap, hraced>>
    /\ UNCHANGED <<nonConcVars, srvVars, hmsg, crashed>>

\* the maps an overlapped write of a can leave behind
RacedWrites(book, snap, a) == {MapInsert(book, a), MapInsert(snap, a), book}

\* line 242-243 of addPeer: the map write ends
AddPeerWrite(t) ==
    LET a == UnmarshalAddr(hmsg[t].data).val IN
    /\ ~crashed /\ hpc[t] = "write"
    /\ \/ /\ addressbook' \in
               (IF hraced[t] THEN RacedWrites(addressbook, hsnap[t], a)
                ELSE {MapInsert(addressbook, a)})
          /\ Finish(t, "nil", <<>>)
          /\ UNCHANGED crashed
       \/ /\ hraced[t]
          /\ crashed' = TRUE
          /\ UNCHANGED <<addressbook, hpc, hout>>
    /\ UNCHANGED <<nonConcVars, myAddr, hmsg, hsnap, hraced>>

\* handleConn line 203-204 with fn = sharePeers, lines 220-225: check the
\* payload, then start ranging over the map
HC_SharePeers(t) ==
    /\ ~crashed /\ hpc[t] = "dispatch" /\ hmsg[t].type = TagP
    /\ IF SharePeersArgOk(hmsg[t].data)
       THEN BeginAccess(t, "read") /\ UNCHANGED hout
       ELSE Finish(t, "invalid number of peers", <<>>) /\ UNCHANGED <<hsnap, hraced>>
    /\ UNCHANGED <<nonConcVars, srvVars, hmsg, crashed>>

\* lines 225-233 of sharePeers: the range ends and the reply is written
SharePeersRange(t) ==
    /\ ~crashed /\ hpc[t] = "read"
    /\ \/ /\ \E b \in (IF hraced[t] THEN {hsnap[t], addressbook} ELSE {addressbook}) :
                \E r \in SharePeersReplies(b, hmsg[t].data) : Finish(t, "nil", r)
          /\ UNCHANGED crashed
       \/ /\ hraced[t]
          /\ crashed' = TRUE
          /\ UNCHANGED <<hpc, hout>>
    /\ UNCHANGED <<nonConcVars, srvVars, hmsg, hsnap, hraced>>

\* handleConn line 203-204 with fn = sendHostname
HC_SendHostname(t) ==
    /\ ~crashed /\ hpc[t] = "dispatch" /\ hmsg[t].type = TagH
    /\ Finish(t, "nil", SendHostnameReply)
    /\ UNCHANGED <<nonConcVars, srvVars, hmsg, hsnap, hraced, crashed>>

\* handleConn lines 203-208: no handler is registered for the tag
HC_NoHandler(t) ==
    /\ ~crashed /\ hpc[t] = "dispatch" /\ hmsg[t].type \notin {TagA, TagP, TagH}
    /\ Finish(t, "no handler", <<>>)
    /\ UNCHANGED <<nonConcVars, srvVars, hmsg, hsnap, hraced, crashed>>

NextConc ==
    \E t \in Tasks :
        \/ Accept(t)
        \/ HC_AddPeer(t)
        \/ AddPeerWrite(t)
        \/ HC_SharePeers(t)
        \/ SharePeersRange(t)
        \/ HC_SendHostname(t)
        \/ HC_NoHandler(t)

SpecConc == InitConc /\ [][NextConc]_vars

(***************************************************************************)
(* Concurrency: the claims.                                                *)
(***************************************************************************)
AnnounceOf(t) == UnmarshalAddr(hmsg[t].data)

\* every task delivered a decodable peer-announce, all for distinct addresses
DistinctAnnounces ==
    /\ \A t \in Tasks : hmsg[t].type = TagA /\ AnnounceOf(t).ok
    /\ \A t, u \in Tasks : t # u => AnnounceOf(t).val # AnnounceOf(u).val

\* C2: once N concurrent handleConn tasks, each delivering a peer-announce
\* for a distinct address to an initially empty book, have all finished, the
\* book holds exactly those N addresses.
C2_NoLostUpdate ==
    (DistinctAnnounces /\ \A t \in Tasks : hpc[t] = "done")
        => addressbook = {AnnounceOf(t).val : t \in Tasks}

\* C3: no task writes the address book while another task reads or writes it.
C3_MutualExclusion ==
    \A t, u \in Tasks :
        t # u => ~(hpc[t] = "write" /\ hpc[u] \in {"write", "read"})

(***************************************************************************)
(* SpecServe: inbound connections served one after the other, each         *)
(* handler running to its end before the next begins.                      *)
(***************************************************************************)
\* the payloads of inbound 'A' and 'P' messages
AnnData == {MarshalAddr(a) : a \in Addrs} \cup {Junk}

ShareData == {<<Run(c, 1)>> : c \in {0, 1, 2, 3, 255}} \cup {<<>>, Junk}

\* a range loop of Bootstrap is running over the map; the hostname loop of
\* lines 314-318 is left by the break as soon as one Call has succeeded
Ranging ==
    \/ bpc \in {"request", "announce"}
    \/ bpc = "learn" /\ hostWrites = 0

\* handleConn with fn = addPeer, lines 237-244, run from start to end.  An
\* entry new to the map may or may not be produced by a range loop that is
\* running over it.
ServeAddPeer(d) ==
    LET r == UnmarshalAddr(d) IN
    /\ IF r.ok
       THEN /\ addressbook' = MapInsert(addressbook, r.val)
            /\ annIn' = annIn \cup {r.val}
            /\ bPend' \in (IF Ranging /\ r.val \notin addressbook
                           THEN {bPend, bPend \cup {r.val}} ELSE {bPend})
       ELSE UNCHANGED <<addressbook, annIn, bPend>>
    /\ UNCHANGED <<frameVars, concVars, addPeerFrame, myAddr, lastShare, envVars, bpc, bIdx,
                   bRet, logVars>>

\* handleConn with fn = sharePeers, lines 219-234, run from start to end
ServeSharePeers(d) ==
    /\ IF SharePeersArgOk(d)
       THEN \E r \in SharePeersReplies(addressbook, d) :
               lastShare' = [book |-> addressbook, msg |-> d, err |-> "nil",
                             reply |-> r]
       ELSE lastShare' = [book |-> addressbook, msg |-> d,
                          err |-> "invalid number of peers", reply |-> <<>>]
    /\ UNCHANGED <<frameVars, concVars, srvVars, annIn, bootVars, extVars>>

InitServe ==
    /\ SrvInit /\ ServeIdle /\ FrameIdle /\ ConcIdle /\ BootIdle /\ ExtIdle

NextServe ==
    \/ \E d \in AnnData : ServeAddPeer(d) /\ UNCHANGED bookVars
    \/ \E d \in ShareData : ServeSharePeers(d)

SpecServe == InitServe /\ [][NextServe]_vars

(***************************************************************************)
(* Peer share: the claim.                                                  *)
(***************************************************************************)
\* the list a peer-share reply frame carries
ReplyList(frame) == UnmarshalList(BDrop(frame, PrefixLen))

Distinct(l) == \A i, j \in 1..Len(l) : i # j => l[i] # l[j]

\* C8: for a book of size N and a request with count byte C, sharePeers
\* replies with exactly min(N, C) pairwise distinct addresses, all members of
\* the book at the time of the request; a payload whose length is not 1
\* yields an error and no reply.
C8_PeerShareBound ==
    lastShare.err # "pending" =>
        IF BLen(lastShare.msg) = 1
        THEN LET l == ReplyList(lastShare.reply) IN
             /\ lastShare.err = "nil"
             /\ DecUint64(BTake(lastShare.reply, PrefixLen))
                   = BLen(lastShare.reply) - PrefixLen
             /\ l.ok
             /\ Len(l.val) = Min(Cardinality(lastShare.book), BAt(lastShare.msg, 1))
             /\ Distinct(l.val)
             /\ \A i \in 1..Len(l.val) : l.val[i] \in lastShare.book
        ELSE lastShare.err # "nil" /\ lastShare.reply = <<>>

\* C8 witness: a book of 3 peers was asked for 2 and 2 were sent
C8_Witness ==
    /\ lastShare.err = "nil" /\ Cardinality(lastShare.book) = 3
    /\ lastShare.msg = <<Run(2, 1)>>
    /\ Len(ReplyList(lastShare.reply).val) = 2

(***************************************************************************)
(* SpecBoot: one run of Bootstrap.  The peers are the environment: whether *)
(* a dial succeeds is fixed by reach, and what each peer answers is fixed  *)
(* when the run begins.  Inbound peer-announce messages are served between *)
(* the steps of Bootstrap.                                                 *)
(***************************************************************************)
RECURSIVE SeqsUpTo(_, _)
SeqsUpTo(S, n) ==
    IF n = 0 THEN {<<>>}
    ELSE SeqsUpTo(S, n - 1)
         \cup {Append(q, a) : q \in {x \in SeqsUpTo(S, n - 1) : Len(x) = n - 1}, a \in S}

SeedLists == SeqsUpTo({P1, Me1}, MaxSeeds)

\* the node listens on its own port, so its own address accepts connections
ReachSets == {R \cup {Me0, Me1} : R \in {{P1, P2}, {P1}, {P1, P2, P3}}}

Ans(d) == [ok |-> TRUE, data |-> d]

\* "203.0.113.5:p", "10.0.0.3:p", and "203.0.113.5" without a port
GoodHost == FromSeq(<<HostCode("203.0.113.5"), 58, 100>>)
OtherHost == FromSeq(<<HostCode("10.0.0.3"), 58, 100>>)
NoPortHost == FromSeq(<<HostCode("203.0.113.5")>>)

\* the behaviours of the peers: what ReadPrefix hands learnHostname and
\* requestPeers on a connection to each (NoAns: the exchange fails)
Worlds ==
    {[host |-> [a \in Addrs |-> Ans(GoodHost)],
      share |-> [a \in Addrs |-> IF a = P1 THEN Ans(MarshalList(<<P2, P3>>))
                                 ELSE Ans(MarshalList(<<>>))],
      flaky |-> {}],
     [host |-> [a \in Addrs |-> IF a = P1 THEN NoAns
                                ELSE IF a = P2 THEN Ans(OtherHost)
                                ELSE Ans(GoodHost)],
      share |-> [a \in Addrs |-> IF a = P1 THEN Ans(MarshalList(<<Me1, P2>>))
                                 ELSE IF a = P2 THEN Ans(MarshalList(<<Me0, P3>>))
                                 ELSE NoAns],
      flaky |-> {P2}],
     [host |-> [a \in Addrs |-> IF a = P1 THEN Ans(NoPortHost) ELSE Ans(GoodHost)],
      share |-> [a \in Addrs |-> IF a = P1 THEN Ans(Junk)
                                 ELSE Ans(MarshalList(<<P2, P3>>))],
      flaky |-> {P1}]}

\* net.SplitHostPort on a string of symbols: the host is what precedes the
\* last colon, and must hold no colon itself
SplitHostPort(q) ==
    LET colons == {i \in 1..Len(q) : q[i] = 58}
        last == IF colons = {} THEN 0
                ELSE CHOOSE i \in colons : \A j \in colons : j <= i
    IN  IF colons = {} \/ Cardinality(colons) > 1 \/ last > 2
        THEN [ok |-> FALSE, host |-> ""]
        ELSE [ok |-> TRUE, host |-> IF last = 1 THEN "" ELSE Hosts[q[1]]]

\* Ping, lines 249-256
Ping(addr) == addr \in reach

\* the addresses of a reply on which requestPeers calls Ping (line 296)
Probed(addrs, me) == {addrs[i] : i \in {j \in 1..Len(addrs) : addrs[j] # me}}

\* requestPeers without the probe of line 296
PeersToAddNoPing(addrs, me) == Probed(addrs, me)

\* lines 295-299 of requestPeers: the addresses of the reply it stores
PeersToAdd(addrs, me) == {a \in Probed(addrs, me) : Ping(a)}

\* a Broadcast that returns at the first Call that fails
BroadcastRestAbort(pend, addr, err) == IF err THEN {} ELSE pend \ {addr}

\* Broadcast, lines 110-112: the result of Call is dropped, the range goes on
BroadcastRest(pend, addr, err) == pend \ {addr}

\* the hostname loop without the break of line 316
LearnRestNoBreak(pend, addr, err) == pend \ {addr}

\* lines 314-318: the loop ends at the first Call that returns nil
LearnRest(pend, addr, err) == IF err THEN pend \ {addr} ELSE {}

\* a SendVal whose value is the address the server was constructed with
SendValMsgStale(t, enc) == BCat(<<Run(t, 1)>>, WritePrefixBytes(MarshalAddr(Me0)))

\* SendVal, lines 74-79: tag, 4 length bytes, the encoded value
SendValMsg(t, enc) == BCat(<<Run(t, 1)>>, WritePrefixBytes(enc))

InitBoot ==
    /\ SrvInit /\ ServeIdle /\ FrameIdle /\ ConcIdle /\ ExtIdle
    /\ BootstrapPeers \in SeedLists /\ reach \in ReachSets
    /\ \E w \in Worlds :
          hostAns = w.host /\ shareAns = w.share /\ flaky = w.flaky
    /\ bpc = "seed" /\ bIdx = 1 /\ bPend = {} /\ bRet = "pending"
    /\ LogInit

bootFrame == <<frameVars, concVars, serveVars, envVars, extVars>>

\* lines 307-311: one turn of the seeding loop
B_Seed ==
    /\ bpc = "seed" /\ bIdx <= Len(BootstrapPeers)
    /\ LET addr == BootstrapPeers[bIdx] IN
       IF Ping(addr)
       THEN /\ addressbook' = MapInsert(addressbook, addr)
            /\ pinged' = pinged \cup {addr}
            /\ bInserted' = bInserted \cup {addr}
       ELSE UNCHANGED <<addressbook, pinged, bInserted>>
    /\ bIdx' = bIdx + 1
    /\ UNCHANGED <<bootFrame, myAddr, bpc, bPend, bRet, firstHost, hostWrites, learnCalls, learnAfter,
                   bStart, called, dupCall, failed, annMsg, annSent>>

\* line 307 at the end of the seed list, line 314: the hostname loop begins
B_SeedDone ==
    /\ bpc = "seed" /\ bIdx > Len(BootstrapPeers)
    /\ bpc' = "learn"
    /\ bPend' = addressbook
    /\ UNCHANGED <<bootFrame, srvVars, bIdx, bRet, logVars>>

\* lines 314-318 with Call, lines 33-40, and learnHostname, lines 259-276:
\* one turn of the hostname loop
B_Learn ==
    /\ bpc = "learn" /\ bPend # {}
    /\ \E addr \in bPend :
          LET r == SplitHostPort(ToSeq(hostAns[addr].data)) IN
          IF Ping(addr) /\ hostAns[addr].ok /\ r.ok
          THEN /\ myAddr' = [myAddr EXCEPT !.Host = r.host]
               /\ hostWrites' = hostWrites + 1
               /\ firstHost' = IF firstHost = "none" THEN r.host ELSE firstHost
               /\ bPend' = LearnRest(bPend, addr, FALSE)
          ELSE \* the dial, the write, ReadPrefix or SplitHostPort fails
               /\ bPend' = LearnRest(bPend, addr, TRUE)
               /\ UNCHANGED <<myAddr, firstHost, hostWrites>>
    /\ learnCalls' = learnCalls + 1
    /\ learnAfter' = (learnAfter \/ hostWrites > 0)
    /\ UNCHANGED <<bootFrame, addressbook, bpc, bIdx, bRet, pinged, bInserted,
                   bStart, called, dupCall, failed, annMsg, annSent>>

\* the hostname loop has ended; line 322, Broadcast(requestPeers) begins
B_LearnDone ==
    /\ bpc = "learn" /\ bPend = {}
    /\ bpc' = "request"
    /\ bPend' = addressbook
    /\ bStart' = [bStart EXCEPT !["request"] = addressbook]
    /\ UNCHANGED <<bootFrame, srvVars, bIdx, bRet, pinged, bInserted, firstHost,
                   hostWrites, learnCalls, learnAfter, called, dupCall, failed, annMsg, annSent>>

\* the bookkeeping of one Call made by a Broadcast
NoteCall(ph, addr, kind) ==
    /\ called' = [called EXCEPT ![ph] = @ \cup {addr}]
    /\ dupCall' = (dupCall \/ addr \in called[ph])
    /\ failed' = IF kind = "nil" THEN failed ELSE failed \cup {<<ph, addr, kind>>}

\* line 322: one turn of Broadcast (lines 110-112) with Call (lines 33-40)
\* and requestPeers (lines 280-301).  An entry requestPeers adds to the map
\* may or may not be produced by the range loop that is running.
B_Request ==
    /\ bpc = "request" /\ bPend # {}
    /\ \E addr \in bPend :
          LET r == UnmarshalList(shareAns[addr].data)
              add == PeersToAdd(r.val, myAddr)
          IN  IF ~Ping(addr)
              THEN \* net.DialTimeout fails
                   /\ NoteCall("request", addr, "dial")
                   /\ bPend' = BroadcastRest(bPend, addr, TRUE)
                   /\ UNCHANGED <<addressbook, pinged, bInserted>>
              ELSE IF ~shareAns[addr].ok
              THEN \* the write or ReadPrefix fails
                   /\ NoteCall("request", addr, "io")
                   /\ bPend' = BroadcastRest(bPend, addr, TRUE)
                   /\ UNCHANGED <<addressbook, pinged, bInserted>>
              ELSE IF ~r.ok
              THEN \* Unmarshal fails
                   /\ NoteCall("request", addr, "decode")
                   /\ bPend' = BroadcastRest(bPend, addr, TRUE)
                   /\ UNCHANGED <<addressbook, pinged, bInserted>>
              ELSE /\ addressbook' = addressbook \cup add
                   /\ bInserted' = bInserted \cup add
                   /\ pinged' = pinged \cup (Probed(r.val, myAddr) \cap reach)
                   /\ NoteCall("request", addr, "nil")
                   /\ \E S \in SUBSET (add \ addressbook) :
                         bPend' = BroadcastRest(bPend, addr, FALSE) \cup S
    /\ UNCHANGED <<bootFrame, myAddr, bpc, bIdx, bRet, firstHost, hostWrites, learnCalls, learnAfter,
                   bStart, annMsg, annSent>>

\* Broadcast(requestPeers) has ended; line 325: SendVal builds the announce
\* from tcps.myAddr and the second Broadcast begins
B_RequestDone ==
    /\ bpc = "request" /\ bPend = {}
    /\ bpc' = "announce"
    /\ annMsg' = SendValMsg(TagA, MarshalAddr(myAddr))
    /\ bPend' = addressbook
    /\ bStart' = [bStart EXCEPT !["announce"] = addressbook]
    /\ UNCHANGED <<bootFrame, srvVars, bIdx, bRet, pinged, bInserted, firstHost,
                   hostWrites, learnCalls, learnAfter, called, dupCall, failed, annSent>>

\* line 325: one turn of Broadcast with Call and the closure of SendVal
\* (lines 80-83)
B_Announce ==
    /\ bpc = "announce" /\ bPend # {}
    /\ \E addr \in bPend :
          IF ~Ping(addr)
          THEN /\ NoteCall("announce", addr, "dial")
               /\ bPend' = BroadcastRest(bPend, addr, TRUE)
               /\ UNCHANGED annSent
          ELSE IF addr \in flaky
          THEN /\ NoteCall("announce", addr, "io")
               /\ bPend' = BroadcastRest(bPend, addr, TRUE)
               /\ UNCHANGED annSent
          ELSE /\ NoteCall("announce", addr, "nil")
               /\ annSent' = annSent \cup {<<addr, annMsg>>}
               /\ bPend' = BroadcastRest(bPend, addr, FALSE)
    /\ UNCHANGED <<bootFrame, srvVars, bpc, bIdx, bRet, pinged, bInserted,
                   firstHost, hostWrites, learnCalls, learnAfter, bStart, annMsg>>

\* line 327: Bootstrap returns its err, which nothing has assigned
B_Return ==
    /\ bpc = "announce" /\ bPend = {}
    /\ bpc' = "done"
    /\ bRet' = "nil"
    /\ UNCHANGED <<bootFrame, srvVars, bIdx, bPend, logVars>>

\* an inbound peer-announce is served while Bootstrap is between two steps
B_AnnounceIn ==
    /\ Cardinality(annIn) < MaxAnnounce
    /\ \E d \in {MarshalAddr(a) : a \in {P2, P3, Me0, Me1}} : ServeAddPeer(d)
    /\ UNCHANGED bookVars

NextBoot ==
    \/ B_Seed
    \/ B_SeedDone
    \/ B_Learn
    \/ B_LearnDone
    \/ B_Request
    \/ B_RequestDone
    \/ B_Announce
    \/ B_Return
    \/ B_AnnounceIn

SpecBoot == InitBoot /\ [][NextBoot]_vars

(***************************************************************************)
(* Bootstrap: the claims.                                                  *)
(***************************************************************************)
\* C1: the address book never contains the server's own address, whatever
\* Bootstrap steps and peer-announce deliveries have happened.
C1_NoOwnAddress == myAddr \notin addressbook

\* the scenario of the specification: the seed list is [P1]; P1 is
\* reachable, answers the hostname query with "203.0.113.5:p" and shares
\* [P2, P3]; P2 is reachable and P3 is not; nothing is announced to the node
Scenario ==
    /\ BootstrapPeers = <<P1>>
    /\ reach \cap {P1, P2, P3} = {P1, P2}
    /\ hostAns[P1] = Ans(GoodHost)
    /\ shareAns[P1] = Ans(MarshalList(<<P2, P3>>))
    /\ shareAns[P2] = Ans(MarshalList(<<>>))
    /\ annIn = {}

\* C9: after Bootstrap returns, every address it stored in the book answered
\* a Ping, none of them is unreachable, the own host is the host part of the
\* first hostname reply that succeeded, and in the scenario above the book is
\* exactly {P1, P2}.
C9_BootstrapResult ==
    bpc = "done" =>
        /\ bInserted \subseteq pinged
        /\ bInserted \subseteq reach
        /\ bInserted \subseteq addressbook
        /\ firstHost # "none" => myAddr.Host = firstHost
        /\ Scenario => /\ addressbook = {P1, P2}
                       /\ myAddr = NetAddress("203.0.113.5", ListenPort)

\* C9 witness: the scenario has run to its end, P2 learned from P1
C9_Witness ==
    /\ bpc = "done" /\ Scenario
    /\ P2 \in bInserted /\ firstHost = "203.0.113.5"

C17_HostWrittenOnce ==
    /\ hostWrites <= 1
    /\ ~learnAfter
    /\ myAddr.Port = ListenPort
    /\ hostWrites = 0 => myAddr = Me0
    /\ hostWrites > 0 =>
          \E a \in reach :
             /\ hostAns[a].ok
             /\ SplitHostPort(ToSeq(hostAns[a].data)).ok
             /\ SplitHostPort(ToSeq(hostAns[a].data)).host = myAddr.Host

\* C17 witness: Bootstrap has returned; its hostname loop had one exchange
\* fail and then one succeed, and the own host is the one of that reply
C17_Witness ==
    /\ bpc = "done" /\ hostWrites = 1 /\ learnCalls = 2
    /\ myAddr = Me1

\* the address a peer-announce message carries
AnnouncedAddr(m) == UnmarshalAddr(BDrop(m, 1 + PrefixLen))

\* C20: Bootstrap seeds, then learns its host, then requests peers, then
\* announces: the announce carries the own address as the hostname step left
\* it, with the listen port, and goes to every member the book has when the
\* request step is over, the peers stored during that step among them.
C20_AnnounceAfterDiscovery ==
    /\ bpc = "seed" => hostWrites = 0 /\ learnCalls = 0
    /\ bpc \in {"seed", "learn"} => called["request"] = {}
    /\ bpc \in {"seed", "learn", "request"} =>
          called["announce"] = {} /\ annSent = {}
    /\ bpc \in {"request", "announce", "done"} => bIdx > Len(BootstrapPeers)
    /\ bpc \in {"announce", "done"} =>
          /\ BAt(annMsg, 1) = TagA
          /\ annMsg = BCat(<<Run(TagA, 1)>>, WritePrefixBytes(BDrop(annMsg, 1 + PrefixLen)))
          /\ AnnouncedAddr(annMsg).ok
          /\ AnnouncedAddr(annMsg).val = myAddr
          /\ AnnouncedAddr(annMsg).val.Port = ListenPort
          /\ firstHost # "none" => AnnouncedAddr(annMsg).val.Host = firstHost
          /\ bInserted \subseteq bStart["announce"]
    /\ \A x \in annSent : x[2] = annMsg /\ x[1] \in called["announce"]
    /\ bpc = "done" =>
          \A a \in bStart["announce"] :
             /\ a \in called["announce"]
             /\ (a \in reach /\ a \notin flaky) => <<a, annMsg>> \in annSent

\* C20 witness: Bootstrap has returned; the host was learned, P2 was stored
\* during the request step, and the announce with the learned host went to P2
C20_Witness ==
    /\ bpc = "done" /\ firstHost = "203.0.113.5"
    /\ P2 \in bInserted /\ P2 \notin {BootstrapPeers[i] : i \in 1..Len(BootstrapPeers)}
    /\ <<P2, SendValMsg(TagA, MarshalAddr(Me1))>> \in annSent

(***************************************************************************)
(* SpecDisp: the dispatcher.  listen accepts one connection after the      *)
(* other, handleConn reads the tag and the framed message from it with     *)
(* ReadPrefix and calls the handler the table holds for the tag, while the *)
(* application registers handlers between its steps.                       *)
(***************************************************************************)
\* connections accepted in one run, and registration calls made in it
MaxConns == 2

MaxRegs == 2

\* the tags the application registers handlers for, and its raw handlers
RegTags == {TagP, TagX}

RegFns == {"fnA", "fnB"}

\* what a client writes to a connection: tag, length prefix, payload
DispInputs ==
    {[tag |-> <<Run(TagH, 1)>>, hdr |-> PrefixOf(0), payload |-> <<>>],
     [tag |-> <<Run(TagP, 1)>>, hdr |-> PrefixOf(1), payload |-> <<Run(10, 1)>>],
     [tag |-> <<Run(TagP, 1)>>, hdr |-> PrefixOf(2), payload |-> <<Run(1, 2)>>],
     [tag |-> <<Run(TagA, 1)>>, hdr |-> PrefixOf(3), payload |-> MarshalAddr(P1)],
     [tag |-> <<Run(TagA, 1)>>, hdr |-> PrefixOf(2), payload |-> Junk],
     [tag |-> <<Run(TagA, 1)>>, hdr |-> PrefixOf(5), payload |-> MarshalAddr(P1)],
     [tag |-> <<Run(TagA, 1)>>, hdr |-> PrefixOf(maxMsgLen + 1), payload |-> <<>>],
     [tag |-> <<Run(TagA, 1)>>, hdr |-> BTake(PrefixOf(3), 2), payload |-> <<>>],
     [tag |-> <<Run(TagX, 1)>>, hdr |-> PrefixOf(0), payload |-> <<>>],
     [tag |-> <<>>, hdr |-> <<>>, payload |-> <<>>]}

\* RegisterHandler that keeps a binding the tag already has
RegisterHandlerKeep(hm, t, fn) == IF hm[t] = "none" THEN [hm EXCEPT ![t] = fn] ELSE hm

\* RegisterHandler, line 118
RegisterHandler(hm, t, fn) == [hm EXCEPT ![t] = fn]

\* the values handed to RegisterRPC as fn, by what reflect reports of them:
\* nil, an int, func() error, func(T, U) error, func(T), func(T) int,
\* func(T) (int, error), func(T) error
FnShapes ==
    {[kind |-> "nil", numIn |-> 0, numOut |-> 0, outErr |-> FALSE],
     [kind |-> "int", numIn |-> 0, numOut |-> 0, outErr |-> FALSE],
     [kind |-> "func", numIn |-> 0, numOut |-> 1, outErr |-> TRUE],
     [kind |-> "func", numIn |-> 2, numOut |-> 1, outErr |-> TRUE],
     [kind |-> "func", numIn |-> 1, numOut |-> 0, outErr |-> FALSE],
     [kind |-> "func", numIn |-> 1, numOut |-> 1, outErr |-> FALSE],
     [kind |-> "func", numIn |-> 1, numOut |-> 2, outErr |-> FALSE],
     [kind |-> "func", numIn |-> 1, numOut |-> 1, outErr |-> TRUE]}

\* fn is a function of one argument that returns exactly an error
WellShaped(f) == f.kind = "func" /\ f.numIn = 1 /\ f.numOut = 1 /\ f.outErr

\* RegisterRPC, lines 127-131.  reflect.TypeOf(nil) is the nil Type, and
\* typ.Kind() on it is a nil dereference: the call panics.
RegisterRPCCheck(f) ==
    IF f.kind = "nil" THEN "panic"
    ELSE IF f.kind # "func" \/ f.numIn # 1 \/ f.numOut # 1 \/ ~f.outErr
    THEN "registered function has wrong type signature"
    ELSE "nil"

\* the process runs: no panic has ended it
Alive == regCall.ret # "panic"

\* handleConn's lookup that falls back on a handler for an unbound tag
HandlerForAny(hm, t) == IF hm[t] = "none" THEN "sendHostname" ELSE hm[t]

\* line 203: fn, ok := tcps.handlerMap[msgType[0]]
HandlerFor(hm, t) == hm[t]

\* line 204, fn(conn, msgData): what the handler leaves of the book, what it
\* returns and what it writes to the connection
HandlerRun(fn, book, d) ==
    IF fn = "sendHostname"
    THEN {[book |-> book, err |-> "nil", reply |-> SendHostnameReply]}
    ELSE IF fn = "sharePeers"
    THEN IF SharePeersArgOk(d)
         THEN {[book |-> book, err |-> "nil", reply |-> r] :
                  r \in SharePeersReplies(book, d)}
         ELSE {[book |-> book, err |-> "invalid number of peers", reply |-> <<>>]}
    ELSE IF fn = "addPeer"
    THEN IF UnmarshalAddr(d).ok
         THEN {[book |-> MapInsert(book, UnmarshalAddr(d).val), err |-> "nil",
                reply |-> <<>>]}
         ELSE {[book |-> book, err |-> "unmarshal", reply |-> <<>>]}
    ELSE IF fn = "sfn"
    THEN \* the wrapper of RegisterRPC, lines 134-143, around a func(NetAddress) error
         {[book |-> book, err |-> IF UnmarshalAddr(d).ok THEN "nil" ELSE "unmarshal",
           reply |-> <<>>]}
    ELSE {[book |-> book, err |-> "nil", reply |-> <<>>]}

InitDisp ==
    /\ SrvInit /\ ConcIdle /\ ServeIdle /\ BootIdle /\ FrameIdle
    /\ TableInit
    /\ hcpc = "idle" /\ hcTag = -1 /\ connOpen = FALSE /\ invoked = <<>>
    /\ hcReply = <<>> /\ bookBefore = {} /\ connsServed = 0
    /\ ListenIdle /\ BookIdle /\ XchgIdle

dispFrame == <<concVars, serveVars, bootVars, listenVars, bookVars, xchgVars>>

\* listen, lines 177-182: a connection is accepted and handed to handleConn;
\* its client has written what it has to say
DispAccept ==
    /\ Alive /\ hcpc \in {"idle", "closed"} /\ connsServed < MaxConns
    /\ \E i \in DispInputs :
          /\ hdr' = BCat(i.tag, i.hdr)
          /\ payload' = i.payload
          /\ stream' = BCat(BCat(i.tag, i.hdr), i.payload)
    /\ wmode' = "raw" /\ spc' = "open" /\ connErr' = FALSE
    /\ rpc' = "done" /\ msgLen' = 0 /\ total' = 0 /\ data' = <<>> /\ rfN' = 0
    /\ rpRet' = NoRet /\ shortReads' = 0
    /\ hcpc' = "tag" /\ hcTag' = -1 /\ connOpen' = TRUE /\ invoked' = <<>>
    /\ hcReply' = <<>> /\ bookBefore' = addressbook
    /\ connsServed' = connsServed + 1
    /\ UNCHANGED <<dispFrame, srvVars, handlerMap, regLog, regCall, regs>>

\* the client closes its end of the connection
DispClientClose == Alive /\ hcpc \in {"tag", "readprefix"} /\ SenderClose

\* the connection breaks while ReadPrefix is reading
DispConnReset == Alive /\ hcpc = "readprefix" /\ ConnReset

\* lines 192-196: read the tag byte; return, closing the connection, if
\* that fails
DispReadTag ==
    /\ Alive /\ hcpc = "tag"
    /\ \/ /\ connErr \/ AtEOF
          /\ hcpc' = "closed" /\ connOpen' = FALSE
          /\ UNCHANGED <<hcTag, stream, rpc>>
       \/ /\ ~connErr /\ stream # <<>>
          /\ hcTag' = BAt(stream, 1)
          /\ stream' = BDrop(stream, 1)
          /\ hcpc' = "readprefix" /\ rpc' = "start"
          /\ UNCHANGED connOpen
    /\ UNCHANGED <<dispFrame, srvVars, wmode, payload, hdr, spc, connErr, msgLen,
                   total, data, rfN, rpRet, shortReads, handlerMap, regLog,
                   regCall, regs, invoked, hcReply, bookBefore, connsServed>>

\* line 197: ReadPrefix(conn)
DispReadPrefix == Alive /\ hcpc = "readprefix" /\ ReadPrefix

\* lines 198-208: return if ReadPrefix failed; otherwise look the tag up and
\* call the handler found; the deferred conn.Close() runs on every return
DispDispatch ==
    /\ Alive /\ hcpc = "readprefix" /\ rpc = "done"
    /\ LET fn == HandlerFor(handlerMap, hcTag) IN
       IF rpRet.err # "nil" \/ fn = "none"
       THEN UNCHANGED <<addressbook, invoked, hcReply>>
       ELSE \E o \in HandlerRun(fn, addressbook, rpRet.data) :
               /\ addressbook' = o.book
               /\ hcReply' = o.reply
               /\ invoked' = Append(invoked, [tag |-> hcTag, fn |-> fn,
                                              err |-> o.err, log |-> regLog[hcTag]])
    /\ hcpc' = "closed" /\ connOpen' = FALSE
    /\ UNCHANGED <<dispFrame, frameVars, myAddr, handlerMap, regLog, regCall,
                   regs, hcTag, bookBefore, connsServed>>

\* the application calls RegisterHandler(t, fn)
DispRegisterHandler ==
    /\ Alive /\ regs < MaxRegs
    /\ \E t \in RegTags, fn \in RegFns :
          /\ handlerMap' = RegisterHandler(handlerMap, t, fn)
          /\ regLog' = [regLog EXCEPT ![t] = Append(@, fn)]
          /\ regCall' = [tag |-> t, fn |-> fn, kind |-> "func", shaped |-> TRUE,
                         ret |-> "nil", before |-> handlerMap]
    /\ regs' = regs + 1
    /\ UNCHANGED <<dispFrame, frameVars, srvVars, hcpc, hcTag, connOpen, invoked,
                   hcReply, bookBefore, connsServed>>

\* the application calls RegisterRPC(t, fn), lines 125-147
DispRegisterRPC ==
    /\ Alive /\ regs < MaxRegs
    /\ \E t \in RegTags, f \in FnShapes :
          LET ret == RegisterRPCCheck(f) IN
          /\ regCall' = [tag |-> t, fn |-> "sfn", kind |-> f.kind,
                         shaped |-> WellShaped(f), ret |-> ret,
                         before |-> handlerMap]
          /\ IF ret = "nil"
             THEN /\ handlerMap' = RegisterHandler(handlerMap, t, "sfn")
                  /\ regLog' = [regLog EXCEPT ![t] = Append(@, "sfn")]
             ELSE UNCHANGED <<handlerMap, regLog>>
    /\ regs' = regs + 1
    /\ UNCHANGED <<dispFrame, frameVars, srvVars, hcpc, hcTag, connOpen, invoked,
                   hcReply, bookBefore, connsServed>>

\* the steps of handleConn
HandleConn ==
    \/ DispReadTag
    \/ DispReadPrefix
    \/ DispDispatch

NextDisp ==
    \/ DispAccept
    \/ DispClientClose
    \/ DispConnReset
    \/ HandleConn
    \/ DispRegisterHandler
    \/ DispRegisterRPC

SpecDisp == InitDisp /\ [][NextDisp]_vars

\* the handling goroutine is scheduled while it can take a step
FairDisp == SpecDisp /\ WF_vars(HandleConn)

(***************************************************************************)
(* The dispatcher: the claims.                                             *)
(***************************************************************************)
Last(q) == q[Len(q)]

\* handleConn has returned
HandleConnEnded == hcpc = "closed"

\* C11: handleConn calls at most one handler per connection, the one bound
\* to the tag byte the client sent first; when the tag is unbound, or the
\* tag or the framed message could not be read, it calls none; and when it
\* ends the connection is closed.
C11_OneRegisteredHandler ==
    /\ Len(invoked) <= 1
    /\ hcTag # -1 => hcTag = BAt(SentBytes, 1)
    /\ \A i \in 1..Len(invoked) :
          /\ invoked[i].tag = hcTag
          /\ invoked[i].fn = Last(invoked[i].log)
          /\ invoked[i].fn # "none"
          /\ rpRet.err = "nil"
    /\ (HandleConnEnded /\ hcTag = -1) => invoked = <<>>
    /\ (HandleConnEnded /\ rpRet.err # "nil") => invoked = <<>>
    /\ (HandleConnEnded /\ hcTag # -1 /\ Last(regLog[hcTag]) = "none")
          => invoked = <<>>
    /\ HandleConnEnded => ~connOpen

\* C11 witness: a connection has been handled to its end by the handler the
\* application bound to its tag
C11_Witness ==
    /\ HandleConnEnded /\ ~connOpen
    /\ Len(invoked) = 1 /\ invoked[1].tag = TagX

\* what the client wrote is a protocol error: a short or oversize length
\* prefix, fewer or more payload bytes than declared, a peer-share payload
\* that is not one byte, an announce that does not decode
DeclaredLen == DecUint64(BDrop(hdr, 1))

ProtocolErrorInput ==
    \/ BLen(hdr) < 1 + PrefixLen
    \/ DeclaredLen > maxMsgLen
    \/ BLen(payload) # DeclaredLen
    \/ BAt(hdr, 1) = TagP /\ BLen(payload) # 1
    \/ BAt(hdr, 1) = TagA /\ ~UnmarshalAddr(payload).ok

\* the client has sent such a message and closed its end
Offending ==
    /\ Alive /\ hcpc \in {"tag", "readprefix"} /\ spc = "closed"
    /\ ProtocolErrorInput

\* C13: a protocol error on a connection ends that connection's handling
\* task, with the connection closed and the address book as it was.
C13_ErrorEndsOnlyThatTask ==
    Offending ~> (~Alive \/ (HandleConnEnded /\ ~connOpen /\ addressbook = bookBefore))

\* C14: a handler called for a tag is the one registered last for it, never
\* one that was overwritten; a registration binds its tag and leaves every
\* other tag's binding as it was.
C14_LastRegistrationWins ==
    /\ \A t \in Tags : handlerMap[t] = Last(regLog[t])
    /\ \A i \in 1..Len(invoked) : invoked[i].fn = Last(invoked[i].log)
    /\ regCall.ret = "nil" =>
          /\ handlerMap[regCall.tag] = regCall.fn
          /\ \A t \in Tags \ {regCall.tag} : handlerMap[t] = regCall.before[t]

\* C14 witness: a tag was bound to fnA, then to fnB, and a message with that
\* tag dispatched afterwards called fnB
C14_Witness ==
    /\ Len(invoked) = 1
    /\ invoked[1].log = <<"none", "fnA", "fnB">>
    /\ invoked[1].fn = "fnB"

\* C15: RegisterRPC with a value that is not a function of one argument
\* returning exactly an error returns an error, does not crash, and leaves
\* the handler table as it was; it binds the tag only for a well shaped one.
C15_BadShapeRejected ==
    /\ (regCall.fn = "sfn" /\ ~regCall.shaped) =>
          /\ regCall.ret = "registered function has wrong type signature"
          /\ handlerMap = regCall.before
    /\ (regCall.fn = "sfn" /\ regCall.ret = "nil") => regCall.shaped

(***************************************************************************)
(* SpecListen: the accept loop of listen with the handleConn goroutines it *)
(* starts.  A goroutine is first blocked reading from its connection, then *)
(* runs its handler as in SpecConc.  The owner may close the listener.     *)
(***************************************************************************)
\* the tasks that have been started and have not ended
Busy == {t \in Tasks : hpc[t] \in {"blocked", "dispatch", "write", "read"}}

\* an accept loop that handles a connection before it accepts the next
CanAcceptInline(pc, open, busy) == pc = "accept" /\ open /\ busy = {}

\* lines 176-182: listen is in tcps.Accept() whenever it is not starting a
\* goroutine, and Accept hands out a connection while the listener is open
CanAccept(pc, open, busy) == pc = "accept" /\ open

InitListen ==
    /\ SrvInit /\ FrameIdle /\ ServeIdle /\ BootIdle /\ DispIdle /\ BookIdle
    /\ XchgIdle
    /\ hpc = [t \in Tasks |-> "idle"] /\ hmsg = [t \in Tasks |-> NoMsg]
    /\ hsnap = [t \in Tasks |-> {}] /\ hraced = [t \in Tasks |-> FALSE]
    /\ hout = [t \in Tasks |-> NoOut] /\ crashed = FALSE
    /\ lpc = "accept" /\ lOpen = TRUE /\ lateAccept = FALSE /\ busyAtAccept = 0
    /\ closeBefore = <<>> /\ closeAfter = <<>>

listenFrame ==
    <<frameVars, srvVars, serveVars, bootVars, dispVars, bookVars, xchgVars>>

\* lines 177-182: Accept returns a connection, go tcps.handleConn(conn)
\* starts its goroutine, and listen is back in Accept
L_Accept(t) ==
    /\ ~crashed /\ CanAccept(lpc, lOpen, Busy) /\ hpc[t] = "idle"
    /\ hpc' = [hpc EXCEPT ![t] = "blocked"]
    /\ lateAccept' = (lateAccept \/ ~lOpen)
    /\ busyAtAccept' = Cardinality(Busy)
    /\ UNCHANGED <<listenFrame, hmsg, hsnap, hraced, hout, crashed, lpc, lOpen,
                   closeBefore, closeAfter>>

\* the owner calls tcps.Close(): the embedded net.Listener is closed, no
\* accepted connection is touched
L_Close ==
    /\ ~crashed /\ lOpen
    /\ lOpen' = FALSE
    /\ UNCHANGED <<listenFrame, concVars, lpc, lateAccept, busyAtAccept>>
    /\ closeBefore' = hpc
    /\ closeAfter' = hpc'

\* lines 177-180: Accept fails on the closed listener and listen returns
L_Return ==
    /\ ~crashed /\ lpc = "accept" /\ ~lOpen
    /\ lpc' = "returned"
    /\ UNCHANGED <<listenFrame, concVars, lOpen, lateAccept, busyAtAccept,
                   closeBefore, closeAfter>>

\* the messages the peers send in this specification
ListenMsgs ==
    {[type |-> TagA, data |-> MarshalAddr(P1)],
     [type |-> TagP, data |-> <<Run(1, 1)>>],
     [type |-> TagH, data |-> <<>>],
     [type |-> TagX, data |-> <<>>]}

\* handleConn, lines 192-201: the peer's message arrives and is read, or
\* reading it fails
T_Read(t) ==
    /\ ~crashed /\ hpc[t] = "blocked"
    /\ \/ /\ \E m \in ListenMsgs : hmsg' = [hmsg EXCEPT ![t] = m]
          /\ hpc' = [hpc EXCEPT ![t] = "dispatch"]
          /\ UNCHANGED hout
       \/ /\ Finish(t, "read", <<>>)
          /\ UNCHANGED hmsg
    /\ UNCHANGED <<listenFrame, listenVars, hsnap, hraced, crashed>>

NextListen ==
    \/ L_Close
    \/ L_Return
    \/ \E t \in Tasks :
          \/ L_Accept(t)
          \/ T_Read(t)
          \/ HC_AddPeer(t)
          \/ AddPeerWrite(t)
          \/ HC_SharePeers(t)
          \/ SharePeersRange(t)
          \/ HC_SendHostname(t)
          \/ HC_NoHandler(t)

SpecListen == InitListen /\ [][NextListen]_vars

(***************************************************************************)
(* The accept loop: the claims.                                            *)
(***************************************************************************)
\* C12: while the listener is open listen is ready to accept whatever the
\* handling tasks are doing; no connection is accepted after the listener
\* was closed, and listen then returns; closing the listener changes no
\* handling task, and the tasks started before still take their steps.
C12_AcceptLoopIndependent ==
    /\ (lOpen /\ lpc = "accept") => CanAccept(lpc, lOpen, Busy)
    /\ lpc = "returned" => ~lOpen
    /\ ~lateAccept
    /\ (~lOpen /\ lpc = "accept" /\ ~crashed) => ENABLED L_Return
    /\ ~lOpen => \A t \in Tasks : ~ENABLED L_Accept(t)
    /\ closeBefore = closeAfter
    /\ (~lOpen /\ ~crashed) =>
          \A t \in Tasks : hpc[t] = "blocked" => ENABLED T_Read(t)

\* C12 witness: a connection was accepted while another task had not ended,
\* the listener was closed and listen returned, and a task started before
\* the close has since run to its end
C12_Witness ==
    /\ busyAtAccept >= 1
    /\ lpc = "returned"
    /\ \E t \in Tasks :
          /\ closeBefore[t] \in {"blocked", "dispatch"}
          /\ hpc[t] = "done" /\ hout[t].err = "nil"

(***************************************************************************)
(* SpecBook: the address book used by one caller at a time: inbound        *)
(* peer-announces handled by addPeer, and RandomPeer.                      *)
(***************************************************************************)
\* the payloads announced: every address of the model, the zero address,
\* and bytes that do not decode
BookData == AnnData \cup {MarshalAddr(ZeroAddr)}

\* the addresses a book can come to hold
PeerAddresses == {UnmarshalAddr(d).val : d \in {e \in BookData : UnmarshalAddr(e).ok}}

\* RandomPeer, lines 100-106: the named result rand is the zero NetAddress
\* unless the range loop produces a key, and it stops at the first
RandomPeer(book) == IF book = {} THEN {ZeroAddr} ELSE book

InitBook ==
    /\ SrvInit /\ FrameIdle /\ ConcIdle /\ ServeIdle /\ BootIdle
    /\ DispIdle /\ ListenIdle /\ BookIdle /\ XchgIdle

\* an inbound peer-announce with payload d is handled
BookAnnounce(d) ==
    LET r == UnmarshalAddr(d) IN
    /\ ServeAddPeer(d)
    /\ reAnn' = IF r.ok /\ r.val \in annIn
                THEN [seen |-> TRUE, x |-> r.val,
                      same |-> (addressbook' = addressbook),
                      has |-> (r.val \in addressbook')]
                ELSE reAnn
    /\ UNCHANGED rpOut

\* the application calls RandomPeer()
BookRandomPeer ==
    /\ \E v \in RandomPeer(addressbook) :
          rpOut' = [called |-> TRUE, empty |-> (addressbook = {}),
                    member |-> (v \in addressbook), val |-> v]
    /\ UNCHANGED <<frameVars, srvVars, concVars, serveVars, bootVars, dispVars,
                   listenVars, xchgVars, reAnn>>

NextBook ==
    \/ \E d \in BookData : BookAnnounce(d)
    \/ BookRandomPeer

SpecBook == InitBook /\ [][NextBook]_vars

(***************************************************************************)
(* The address book: the claims.                                           *)
(***************************************************************************)
\* C16: an announce of an address that was announced before leaves the book
\* as it was, with that address in it.
C16_AnnounceIdempotent == reAnn.seen => (reAnn.same /\ reAnn.has)

\* C16 witness: an address has been announced a second time, after another
\* address was announced as well
C16_Witness ==
    /\ reAnn.seen
    /\ Cardinality(addressbook) >= 2

\* C18: RandomPeer returns a member of the book when the book is not empty,
\* and on an empty book something that is no peer address.
C18_RandomPeerExplicit ==
    /\ (rpOut.called /\ ~rpOut.empty) => rpOut.member
    /\ (rpOut.called /\ rpOut.empty) => rpOut.val \notin PeerAddresses

(***************************************************************************)
(* SpecXchg: a client running this code makes its request/response         *)
(* exchanges, learnHostname ('H') and requestPeers ('P'), with a peer      *)
(* whose dispatcher is the handleConn of SpecDisp with the default         *)
(* handlers.  No connection fails.  Each exchange is one connection: the   *)
(* client writes its request and reads the reply with ReadPrefix; Call     *)
(* closes the connection when the client function has returned.            *)
(***************************************************************************)
\* the exchanges a client makes in a row; Bootstrap makes "H" then "P"
XchgPlans == {<<"H">>, <<"P">>, <<"H", "P">>}

\* the books the peer may hold
PeerBooks == {{}, {P2}, {P2, P3}}

\* line 261: []byte{'H', 0, 0, 0, 0}; line 282: []byte{'P', 1, 0, 0, 0, 10}
RequestHdr(k) ==
    IF k = "H" THEN FromSeq(<<TagH, 0, 0, 0, 0>>) ELSE FromSeq(<<TagP, 1, 0, 0, 0>>)

RequestPayload(k) == IF k = "H" THEN <<>> ELSE <<Run(10, 1)>>

InitXchg ==
    /\ addressbook \in PeerBooks /\ myAddr = Me0
    /\ ConcIdle /\ ServeIdle /\ BootIdle /\ FrameIdle
    /\ TableInit
    /\ hcpc = "idle" /\ hcTag = -1 /\ connOpen = FALSE /\ invoked = <<>>
    /\ hcReply = <<>> /\ bookBefore = {} /\ connsServed = 0
    /\ ListenIdle /\ BookIdle
    /\ xpc = "start" /\ xplan \in XchgPlans /\ xret = <<>>

xchgFrame == <<concVars, serveVars, bootVars, listenVars, bookVars>>

\* Call dials (line 34), the peer's listen accepts and starts handleConn,
\* and the client function writes its request (line 261 or 282)
X_Request ==
    /\ xpc = "start" /\ xplan # <<>> /\ hcpc \in {"idle", "closed"}
    /\ hdr' = RequestHdr(Head(xplan))
    /\ payload' = RequestPayload(Head(xplan))
    /\ stream' = BCat(RequestHdr(Head(xplan)), RequestPayload(Head(xplan)))
    /\ wmode' = "raw" /\ spc' = "open" /\ connErr' = FALSE
    /\ rpc' = "done" /\ msgLen' = 0 /\ total' = 0 /\ data' = <<>> /\ rfN' = 0
    /\ rpRet' = NoRet /\ shortReads' = 0
    /\ hcpc' = "tag" /\ hcTag' = -1 /\ connOpen' = TRUE /\ invoked' = <<>>
    /\ hcReply' = <<>> /\ bookBefore' = addressbook
    /\ connsServed' = connsServed + 1
    /\ xpc' = "wrote"
    /\ UNCHANGED <<xchgFrame, srvVars, handlerMap, regLog, regCall, regs, xplan,
                   xret>>

\* lines 265 and 287: the client's ReadPrefix begins.  Its first conn.Read
\* returns once the peer has written its reply or closed the connection,
\* which handleConn does in one go when it returns
X_BeginRead ==
    /\ xpc = "wrote" /\ hcpc = "closed"
    /\ hdr' = <<>> /\ payload' = hcReply /\ stream' = hcReply
    /\ wmode' = "raw" /\ spc' = "closed" /\ connErr' = FALSE
    /\ rpc' = "start" /\ msgLen' = 0 /\ total' = 0 /\ data' = <<>> /\ rfN' = 0
    /\ rpRet' = NoRet /\ shortReads' = 0
    /\ xpc' = "reading"
    /\ UNCHANGED <<xchgFrame, srvVars, dispVars, xplan, xret>>

\* the client's ReadPrefix runs
X_ClientRead == xpc = "reading" /\ ReadPrefix

\* lines 266-275 and 288-300: the client function returns, Call closes the
\* connection, and the caller goes on to its next exchange
X_ClientReturn ==
    /\ xpc = "reading" /\ rpc = "done"
    /\ xret' = Append(xret, [kind |-> Head(xplan), err |-> rpRet.err,
                             data |-> rpRet.data])
    /\ xplan' = Tail(xplan)
    /\ xpc' = IF Tail(xplan) = <<>> THEN "returned" ELSE "start"
    /\ UNCHANGED <<xchgFrame, srvVars, dispVars, frameVars>>

\* the steps of the client
Client ==
    \/ X_Request
    \/ X_BeginRead
    \/ X_ClientRead
    \/ X_ClientReturn

NextXchg ==
    \/ Client
    \/ HandleConn

SpecXchg == InitXchg /\ [][NextXchg]_vars

\* both goroutines are scheduled while they can take a step
FairXchg == SpecXchg /\ WF_vars(Client) /\ WF_vars(HandleConn)

(***************************************************************************)
(* The exchange: the claim.                                                *)
(***************************************************************************)
\* C19: every exchange the client starts ends: the peer's handler is called,
\* the client reads the reply, and the caller (Bootstrap) gets to return;
\* neither side waits for ever for the other to close the connection.  The
\* formula is the part every reading shares: the caller returns.
C19_ExchangeCompletes == <>(xpc = "returned")

====
